---------------------------- MODULE Spec2Model ----------------------------
(***************************************************************************)
(* Model of the Miqa Assertion Builder (src/streamlit_app.py).             *)
(*                                                                         *)
(* The program is a script that the widget toolkit runs from top to bottom *)
(* on every user interaction.  One run merges the core field set with the  *)
(* field set of the selected check type, walks the fields, reads one       *)
(* widget per field, collects the Output Document, serialises it, and      *)
(* embeds the JSON text in an HTML fragment whose button posts the parsed  *)
(* text to the top-level window.                                           *)
(*                                                                         *)
(* Texts.  A text is a sequence of lexemes.  A lexeme is either one of the *)
(* special characters listed in Specials, or a maximal run of ordinary     *)
(* characters (a "word"); two words are never adjacent.  The empty string  *)
(* is << >>.  Every conversion of the program (JSON encoding, the HTML     *)
(* parser's reading of the textarea, JSON parsing, str.strip, ast.parse)   *)
(* is an operator on such sequences.                                       *)
(***************************************************************************)
EXTENDS Integers, Sequences, FiniteSets, TLC

VARIABLES
    check_type,   \* line 46: the entry selected in "Select Assertion Type"
    typed,        \* widget state kept by the toolkit: field key -> text the user left
    output,       \* line 50/63/80: the Output Document of the latest run
    notices,      \* line 73/75: field key -> "success" | "error" shown by the latest run
    parsed,       \* line 72: keys whose text was handed to ast.parse in the latest run
    status,       \* "ok", or "exception" when the latest run was aborted by an exception
    posted,       \* line 130: message posted by the apply button of the current page
    toast,        \* line 136: whether the success toast is shown
    console,      \* line 141: whether the handler logged a failure
    sType,        \* pure-function harness: the selected check-type name
    sCore,        \* pure-function harness: a core field set
    sSpecific,    \* pure-function harness: a type-specific field set
    sTyped,       \* pure-function harness: what the user left in the widgets
    sFields,      \* pure-function harness: the merged field mapping (line 47)
    sResult,      \* pure-function harness: the result of the render loop (lines 50-80)
    sTyped2,      \* pure-function harness: what the widgets hold in the next run
    sAgain,       \* pure-function harness: the result of the loop in the next run
    sPc           \* pure-function harness: "start" | "merged" | "rendered" | "again"

vars == << check_type, typed, output, notices, parsed, status, posted,
           toast, console, sType, sCore, sSpecific, sTyped, sFields, sResult,
           sTyped2, sAgain, sPc >>

appVars == << check_type, typed, output, notices, parsed, status, posted,
              toast, console >>

harnessVars ==
    << sType, sCore, sSpecific, sTyped, sFields, sResult, sTyped2, sAgain, sPc >>

-----------------------------------------------------------------------------
(* Bounds of the model.                                                    *)

\* how many texts of TextCatalogue the user may type
NumTexts == 3
\* how many widgets hold something else than their initial value
MaxTouched == 2
\* harness: length of a hypothetical type-specific field set
MaxSchemaLen == 1
\* harness: how many descriptors of MetaCatalogue a hypothetical field set draws from
NumMetas == 7

Prefix(s, n) == { s[i] : i \in { j \in 1..Len(s) : j <= n } }

-----------------------------------------------------------------------------
(* Texts.                                                                  *)

EmptyText == << >>

\* the characters that are lexemes of their own
Specials == { " ", "\"", "\\", "&", ";", "<", ">", "/", "(", ")",
              "{", "}", ":", ",", "\n" }

\* Python's None (line 57); two adjacent words, so it is no text
None == << "None", "None" >>

TextCatalogue ==
    << << "t1" >>,                          \* t1
       << "&", "amp", ";" >>,               \* &amp;
       << " " >>,                           \* one blank
       << "a", "\"", "b", "\\" >>,          \* a"b\
       << "data.rows.map", "(", "(" >>,     \* data.rows.map((
       << "<", "/", "textarea", ">" >>,     \* </textarea>
       << "x", " ", ">", " ", "1" >> >>     \* x > 1

UserTexts == { EmptyText } \cup Prefix(TextCatalogue, NumTexts)

\* line 9: f"assertion_{uuid.uuid4().hex[:8]}"; two of the identifiers it yields
GenIds == { << "assertion_00c0ffee" >>, << "assertion_1a2b3c4d" >> }

-----------------------------------------------------------------------------
(* The schema registry (lines 7-39).  A field set is an ordered mapping: a *)
(* sequence of [key, meta] records with distinct keys, in insertion order. *)
(* A descriptor carries every attribute the render loop looks up, with the *)
(* value dict.get yields when the attribute is absent.  Placeholders only  *)
(* decorate the widget and are left out.                                   *)

BaseMeta(t) ==
    [ type |-> t, required |-> FALSE, optional |-> FALSE,
      default_kind |-> "absent", default |-> EmptyText,
      options |-> << >>, value_from_parent |-> FALSE, value |-> EmptyText ]

Field(k, m) == [ key |-> k, meta |-> m ]

core_fields ==
    << Field("name", [ BaseMeta("string") EXCEPT !.required = TRUE ]),
       Field("id", [ BaseMeta("string") EXCEPT !.optional = TRUE,
                                               !.default_kind = "callable" ]),
       Field("failtype", [ BaseMeta("select") EXCEPT
                               !.options = << << "fail" >>, << "warn" >> >>,
                               !.default_kind = "const",
                               !.default = << "fail" >> ]),
       Field("check_type", [ BaseMeta("fixed") EXCEPT !.value_from_parent = TRUE ]) >>

known_processors ==
    << << "fasta-summary" >>, << "bam-index-stats" >>, << "vcf-header" >>,
       << "flagstat" >>, << "bcftools_stats" >>, << "miqa_steps_log" >>,
       << "bam_reads_by_name" >>, << "bam_region_sample" >>, << "miqa_ls_txt" >> >>

postproc_results_fields ==
    << Field("processor_key", [ BaseMeta("select") EXCEPT
                                    !.options = known_processors,
                                    !.required = TRUE ]),
       Field("stat", BaseMeta("expression")),
       Field("postprocessed_file_pattern", BaseMeta("string")),
       Field("item_typ1e", [ BaseMeta("fixed") EXCEPT !.value = << "outputfile" >> ]) >>

tabular_mdo_eval_fields ==
    << Field("stat", BaseMeta("expression")),
       Field("file_rules", BaseMeta("string")),
       Field("delimiter", BaseMeta("string")),
       Field("comment_character", [ BaseMeta("string") EXCEPT !.optional = TRUE ]) >>

\* list(schemas.keys()), in definition order
CheckTypeList == << "postproc_results", "tabular_mdo_eval" >>

CheckTypes == { CheckTypeList[i] : i \in 1..Len(CheckTypeList) }

schemas(t) ==
    IF t = "postproc_results" THEN postproc_results_fields
                              ELSE tabular_mdo_eval_fields

Keys(fs) == { fs[i].key : i \in 1..Len(fs) }

KeySeq(fs) == [ i \in 1..Len(fs) |-> fs[i].key ]

MetaOf(fs, k) == fs[CHOOSE i \in 1..Len(fs) : fs[i].key = k].meta

-----------------------------------------------------------------------------
(* Line 47: fields = {**core_fields, **schemas[check_type]["fields"]}.     *)
(* A dict display keeps the position of a key's first insertion and the    *)
(* value of its last.                                                      *)

\* faulty variant: on a name collision the core descriptor is kept
MergeCoreWins(core, specific) ==
    core \o SelectSeq(specific, LAMBDA f : f.key \notin Keys(core))

Merge(core, specific) ==
    [ i \in 1..Len(core) |->
        IF core[i].key \in Keys(specific)
        THEN Field(core[i].key, MetaOf(specific, core[i].key))
        ELSE core[i] ]
    \o SelectSeq(specific, LAMBDA f : f.key \notin Keys(core))

\* the mapping of line 47 for each entry of the selectbox of line 46
FieldsTable == [ t \in CheckTypes |-> Merge(core_fields, schemas(t)) ]

fieldsFor(t) == FieldsTable[t]

-----------------------------------------------------------------------------
(* str.strip and ast.parse(value, mode="eval") on lexeme sequences.        *)

RECURSIVE LStrip(_)
LStrip(v) == IF v # << >> /\ Head(v) \in { " ", "\n" } THEN LStrip(Tail(v)) ELSE v

RECURSIVE RStrip(_)
RStrip(v) ==
    IF v # << >> /\ v[Len(v)] \in { " ", "\n" }
    THEN RStrip(SubSeq(v, 1, Len(v) - 1)) ELSE v

\* str.strip()
Strip(v) == RStrip(LStrip(v))

\* binary operators of the expression grammar among the special characters
PyBinOps == { ">", "<", "/", "&" }

\* a word of the catalogue is an identifier, a dotted name or a number
PyIsAtomWord(w) == w \notin Specials

RECURSIVE PySkipWs(_, _)
PySkipWs(t, i) == IF i <= Len(t) /\ t[i] = " " THEN PySkipWs(t, i + 1) ELSE i

\* the position after the closing quote of the string literal opened before i, 0 if none
RECURSIVE PyString(_, _)
PyString(t, i) ==
    IF i > Len(t) \/ t[i] \in { "\\", "\n" } THEN 0
    ELSE IF t[i] = "\"" THEN i + 1
    ELSE PyString(t, i + 1)

\* Each operator yields the position after what it recognised from i on, 0 on a
\* syntax error.
RECURSIVE PyExpr(_, _)
RECURSIVE PyAtom(_, _)
RECURSIVE PyTrailers(_, _)
RECURSIVE PyOperands(_, _)

PyClose(t, j) ==
    LET k == PySkipWs(t, j)
    IN  IF j # 0 /\ k <= Len(t) /\ t[k] = ")" THEN k + 1 ELSE 0

PyAtom(t, i) ==
    IF i > Len(t) THEN 0
    ELSE IF PyIsAtomWord(t[i]) THEN i + 1
    ELSE IF t[i] = "\"" THEN PyString(t, i + 1)
    ELSE IF t[i] = "(" THEN PyClose(t, PyExpr(t, PySkipWs(t, i + 1)))
    ELSE 0

\* call trailers: primary "(" [expression] ")"
PyTrailers(t, j) ==
    LET a == PySkipWs(t, j)
    IN  IF a <= Len(t) /\ t[a] = "("
        THEN LET b == PySkipWs(t, a + 1)
                 c == IF b <= Len(t) /\ t[b] = ")" THEN b + 1
                      ELSE PyClose(t, PyExpr(t, b))
             IN  IF c = 0 THEN 0 ELSE PyTrailers(t, c)
        ELSE j

PyPrimary(t, i) ==
    LET j == PyAtom(t, i) IN IF j = 0 THEN 0 ELSE PyTrailers(t, j)

PyOperands(t, j) ==
    LET a == PySkipWs(t, j)
    IN  IF a <= Len(t) /\ t[a] \in PyBinOps
        THEN LET e == PyPrimary(t, PySkipWs(t, a + 1))
             IN  IF e = 0 THEN 0 ELSE PyOperands(t, e)
        ELSE j

PyExpr(t, i) ==
    LET j == PyPrimary(t, i) IN IF j = 0 THEN 0 ELSE PyOperands(t, j)

\* line 72: "ok", or the exception raised.  Leading blanks are an
\* IndentationError, a subclass of SyntaxError; trailing blanks are allowed.
ast_parse(value) ==
    LET j == PyExpr(value, 1)
    IN  IF value # << >> /\ value[1] # " " /\ j # 0 /\ PySkipWs(value, j) = Len(value) + 1
        THEN "ok" ELSE "SyntaxError"

-----------------------------------------------------------------------------
(* The render loop (lines 50-80).                                          *)

Put(o, k, v) == [ x \in DOMAIN o \cup { k } |-> IF x = k THEN v ELSE o[x] ]

NoOutput == [ x \in {} |-> EmptyText ]

\* faulty variant: the document of the previous run is kept and written over
InitialOutputKept(prev) == prev

\* line 50: output = {}
InitialOutput(prev) == NoOutput

\* lines 55, 59-60: meta.get("default", ""), called when it is callable
Default(meta, g) ==
    IF meta.default_kind = "callable" THEN g
    ELSE IF meta.default_kind = "const" THEN meta.default
    ELSE EmptyText

\* faulty variant: the literal value is used whatever the flag says
FixedValueLiteral(meta, ct) == meta.value

\* line 63: check_type if meta.get("value_from_parent") else meta["value"]
FixedValue(meta, ct) == IF meta.value_from_parent THEN << ct >> ELSE meta.value

IndexOf(seq, x) == CHOOSE i \in 1..Len(seq) : seq[i] = x /\ \A j \in 1..(i - 1) : seq[j] # x

InSeq(seq, x) == \E i \in 1..Len(seq) : seq[i] = x

\* faulty variant: without the fallback a missing default preselects nothing
SelectInitialNoFallback(meta, default) ==
    IF InSeq(meta.options, default) THEN default ELSE EmptyText

\* line 77: options[options.index(default) if default in options else 0]
SelectInitial(meta, default) ==
    IF InSeq(meta.options, default) THEN meta.options[IndexOf(meta.options, default)]
    ELSE meta.options[1]

\* lines 67, 69, 77: what the widget returns: the text or option the user left
\* in it, or its initial value when the user has not touched it
WidgetValue(key, meta, default, ty) ==
    IF key \in DOMAIN ty THEN ty[key]
    ELSE IF meta.type = "select" THEN SelectInitial(meta, default)
    ELSE default

\* faulty variant: every text is handed to the parser
ShouldParseAlways(value) == TRUE

\* line 70: if value.strip():
ShouldParse(value) == Strip(value) # EmptyText

\* faulty variant: the handler catches nothing
CaughtNothing(exc) == FALSE

\* line 74: except SyntaxError
Caught(exc) == exc = "SyntaxError"

\* faulty variant: the optional clause is dropped
IncludedNonEmptyOnly(meta, value) == value # None /\ value # EmptyText

\* faulty variant: every field with a widget is included
IncludedAlways(meta, value) == value # None

\* line 79: if value or (meta.get("optional") and value == ""):
Included(meta, value) ==
    \/ value # None /\ value # EmptyText
    \/ meta.optional /\ value = EmptyText

\* lines 54-80: one iteration of the loop; acc is the state of the run so far
RenderField(acc, f, ct, ty, g) ==
    LET key == f.key
        meta == f.meta
        ftype == meta.type
        default == Default(meta, g)
        value == IF ftype \in { "string", "expression", "select" }
                 THEN WidgetValue(key, meta, default, ty)
                 ELSE None
        tried == ftype = "expression" /\ ShouldParse(value)
        outcome == IF tried THEN ast_parse(value) ELSE "ok"
    IN  IF acc.status # "ok" THEN acc
        ELSE IF ftype = "fixed"
        THEN [ acc EXCEPT !.output = Put(acc.output, key, FixedValue(meta, ct)) ]
        ELSE IF outcome # "ok" /\ ~Caught(outcome)
        THEN [ acc EXCEPT !.parsed = @ \cup { key }, !.status = "exception" ]
        ELSE [ output |-> IF Included(meta, value)
                          THEN Put(acc.output, key, value) ELSE acc.output,
               notices |-> IF tried
                           THEN Put(acc.notices, key,
                                    IF outcome = "ok" THEN "success" ELSE "error")
                           ELSE acc.notices,
               parsed |-> IF tried THEN acc.parsed \cup { key } ELSE acc.parsed,
               status |-> "ok" ]

RECURSIVE RenderFrom(_, _, _, _, _, _)
RenderFrom(acc, fs, i, ct, ty, g) ==
    IF i > Len(fs) THEN acc
    ELSE RenderFrom(RenderField(acc, fs[i], ct, ty, g), fs, i + 1, ct, ty, g)

\* lines 50-80: the whole loop over fields.items()
RenderLoop(fs, ct, ty, g, prev) ==
    RenderFrom([ output |-> InitialOutput(prev), notices |-> NoOutput,
                 parsed |-> {}, status |-> "ok" ], fs, 1, ct, ty, g)

-----------------------------------------------------------------------------
(* Lines 84-89: json.dumps(output, indent=2).  The texts of the catalogue  *)
(* hold no line break and no non-ASCII character, so the only characters   *)
(* the encoder escapes are the quote and the backslash.                    *)

JsonEscapeLexeme(c) ==
    IF c = "\"" THEN << "\\", "\"" >>
    ELSE IF c = "\\" THEN << "\\", "\\" >>
    ELSE << c >>

RECURSIVE JsonEscape(_)
JsonEscape(v) ==
    IF v = << >> THEN << >> ELSE JsonEscapeLexeme(Head(v)) \o JsonEscape(Tail(v))

JsonString(v) == << "\"" >> \o JsonEscape(v) \o << "\"" >>

JsonItem(k, v) == << " ", " " >> \o JsonString(<< k >>) \o << ":", " " >> \o JsonString(v)

RECURSIVE JsonItems(_, _)
JsonItems(o, ks) ==
    IF ks = << >> THEN << >>
    ELSE JsonItem(Head(ks), o[Head(ks)])
         \o (IF Tail(ks) = << >> THEN << >> ELSE << ",", "\n" >>)
         \o JsonItems(o, Tail(ks))

\* json.dumps(o, indent=2); order is the insertion order of the keys of o
json_dumps(o, order) ==
    LET ks == SelectSeq(order, LAMBDA k : k \in DOMAIN o)
    IN  IF ks = << >> THEN << "{", "}" >>
        ELSE << "{", "\n" >> \o JsonItems(o, ks) \o << "\n", "}" >>

-----------------------------------------------------------------------------
(* Line 106: the JSON text is pasted between <textarea ...> and            *)
(* </textarea>.  The browser reads the element's content as RCDATA: a      *)
(* character reference is decoded, and the first "</textarea" followed by  *)
(* a blank, "/" or ">" ends the element.  Line 128 reads the result.       *)

HtmlCharRefNames == { "amp", "lt", "gt", "quot" }

HtmlCharRef(n) ==
    IF n = "amp" THEN "&" ELSE IF n = "lt" THEN "<" ELSE IF n = "gt" THEN ">" ELSE "\""

\* position i opens a character reference
HtmlRefAt(s, i) ==
    i >= 1 /\ i + 1 <= Len(s) /\ s[i] = "&" /\ s[i + 1] \in HtmlCharRefNames

\* position i belongs to a character reference opened before it
HtmlInRef(s, i) ==
    \/ HtmlRefAt(s, i - 1)
    \/ s[i] = ";" /\ HtmlRefAt(s, i - 2)

\* position i opens an end tag of the element
HtmlEndTagAt(s, i) ==
    /\ s[i] = "<" /\ i + 3 <= Len(s)
    /\ s[i + 1] = "/" /\ s[i + 2] = "textarea"
    /\ s[i + 3] \in { ">", " ", "/", "\n" }

\* The content the tokenizer yields for the source s.  A reference and an end
\* tag share no lexeme, so each position is decided by its neighbours alone.
HtmlRcdata(s) ==
    LET ends == { i \in 1..Len(s) : HtmlEndTagAt(s, i) }
        stop == IF ends = {} THEN Len(s) + 1
                ELSE CHOOSE i \in ends : \A j \in ends : i <= j
        kept == SelectSeq([ i \in 1..(stop - 1) |-> i ], LAMBDA i : ~HtmlInRef(s, i))
    IN  [ n \in 1..Len(kept) |->
            IF HtmlRefAt(s, kept[n]) THEN HtmlCharRef(s[kept[n] + 1]) ELSE s[kept[n]] ]

\* document.getElementById(text_id).value for the content written at line 106
TextareaValue(test_json) == HtmlRcdata(test_json)

-----------------------------------------------------------------------------
(* Line 129: JSON.parse(text).  An object is the set of its <<key, value>> *)
(* pairs; of two members with one key the later wins.  The documents of    *)
(* this program hold strings only, so no other kind of value is read.      *)

RECURSIVE JsSkipWs(_, _)
JsSkipWs(t, i) ==
    IF i <= Len(t) /\ t[i] \in { " ", "\n" } THEN JsSkipWs(t, i + 1) ELSE i

JsFail == [ pos |-> 0, val |-> << >> ]

\* the string whose opening quote precedes i; acc is what was read of it
RECURSIVE JsChars(_, _, _)
JsChars(t, i, acc) ==
    IF i > Len(t) \/ t[i] = "\n" THEN JsFail
    ELSE IF t[i] = "\"" THEN [ pos |-> i + 1, val |-> acc ]
    ELSE IF t[i] = "\\"
    THEN IF i + 1 <= Len(t) /\ t[i + 1] \in { "\"", "\\", "/" }
         THEN JsChars(t, i + 2, Append(acc, t[i + 1]))
         ELSE JsFail
    ELSE JsChars(t, i + 1, Append(acc, t[i]))

JsString(t, i) ==
    IF i <= Len(t) /\ t[i] = "\"" THEN JsChars(t, i + 1, << >>) ELSE JsFail

JsPut(obj, k, v) == { p \in obj : p[1] # k } \cup { << k, v >> }

\* the members from i on; yields the position after the closing brace
RECURSIVE JsMembers(_, _, _)
JsMembers(t, i, obj) ==
    LET k == JsString(t, i)
        c == JsSkipWs(t, k.pos)
        v == JsString(t, JsSkipWs(t, c + 1))
        e == JsSkipWs(t, v.pos)
    IN  IF k.pos = 0 \/ c > Len(t) \/ t[c] # ":" THEN [ pos |-> 0, val |-> {} ]
        ELSE IF v.pos = 0 \/ e > Len(t) THEN [ pos |-> 0, val |-> {} ]
        ELSE IF t[e] = "}" THEN [ pos |-> e + 1, val |-> JsPut(obj, k.val, v.val) ]
        ELSE IF t[e] = ","
        THEN JsMembers(t, JsSkipWs(t, e + 1), JsPut(obj, k.val, v.val))
        ELSE [ pos |-> 0, val |-> {} ]

\* [ok, val]: ok is FALSE when JSON.parse throws
JSON_parse(t) ==
    LET a == JsSkipWs(t, 1)
        b == JsSkipWs(t, a + 1)
        r == IF a > Len(t) \/ t[a] # "{" THEN [ pos |-> 0, val |-> {} ]
             ELSE IF b <= Len(t) /\ t[b] = "}" THEN [ pos |-> b + 1, val |-> {} ]
             ELSE JsMembers(t, b, {})
    IN  [ ok |-> r.pos # 0 /\ JsSkipWs(t, r.pos) = Len(t) + 1, val |-> r.val ]

\* the Output Document as the object a faithful transfer delivers
DocPairs(o) == { << << k >>, o[k] >> : k \in DOMAIN o }

NoMessage == [ type |-> "none", payload |-> {} ]

\* lines 126-143: applyTest_<unique_id>(); test_json is what line 106 embedded
applyTest(test_json) ==
    LET json == JSON_parse(TextareaValue(test_json))
    IN  IF json.ok
        THEN [ posted |-> [ type |-> "miqa-test-apply-direct", payload |-> json.val ],
               toast |-> TRUE, console |-> FALSE ]
        ELSE [ posted |-> NoMessage, toast |-> FALSE, console |-> TRUE ]

-----------------------------------------------------------------------------
(* The application: one action per user interaction.  Every interaction    *)
(* but a click on the apply button makes the toolkit run the whole script  *)
(* (lines 42-146) again.                                                   *)

Without(f, k) == [ x \in DOMAIN f \ { k } |-> f[x] ]

Restrict(f, S) == [ x \in DOMAIN f \cap S |-> f[x] ]

\* The toolkit identifies a widget created without a key by its label and
\* arguments.  The default of "id" is regenerated by every run (line 9), so
\* the toolkit may treat the widget as a new one and drop what was typed.
WidgetStates(ty) ==
    { ty } \cup (IF "id" \in DOMAIN ty THEN { Without(ty, "id") } ELSE {})

IdleResult ==
    [ output |-> NoOutput, notices |-> NoOutput, parsed |-> {}, status |-> "ok" ]

\* line 60: the identifiers the run may generate.  When the widget of "id"
\* holds a typed text the generated default is not used, and one identifier
\* stands for all.
Generated(ty) ==
    IF "id" \in DOMAIN ty THEN { CHOOSE g \in GenIds : TRUE } ELSE GenIds

HarnessIdle ==
    /\ sType = CheckTypeList[1]
    /\ sCore = << >>
    /\ sSpecific = << >>
    /\ sTyped = NoOutput
    /\ sFields = << >>
    /\ sResult = IdleResult
    /\ sTyped2 = NoOutput
    /\ sAgain = IdleResult
    /\ sPc = "idle"

\* lines 46-146: one run of the script with the widgets holding ty
ScriptRun(ct, ty, g) ==
    LET r == RenderLoop(fieldsFor(ct), ct, ty, g, output)
    IN  /\ check_type' = ct
        /\ typed' = ty
        /\ output' = r.output
        /\ notices' = r.notices
        /\ parsed' = r.parsed
        /\ status' = r.status
        /\ posted' = NoMessage
        /\ toast' = FALSE
        /\ console' = FALSE
        /\ UNCHANGED harnessVars

\* the first run: the selectbox of line 46 starts at the first check type
Init ==
    /\ check_type = CheckTypeList[1]
    /\ typed = NoOutput
    /\ \E g \in GenIds :
           LET r == RenderLoop(fieldsFor(check_type), check_type, typed, g, NoOutput)
           IN  /\ output = r.output
               /\ notices = r.notices
               /\ parsed = r.parsed
               /\ status = r.status
    /\ posted = NoMessage
    /\ toast = FALSE
    /\ console = FALSE
    /\ HarnessIdle

\* line 46: the user picks another check type.  The widgets of the
\* type-specific fields are new widgets; those of the core fields are kept.
SelectCheckType(t) ==
    /\ t \in CheckTypes
    /\ t # check_type
    /\ \E ty \in WidgetStates(Restrict(typed, Keys(core_fields))) :
           \E g \in Generated(ty) : ScriptRun(t, ty, g)

\* what the user can leave in the widget of a field
Choices(meta) ==
    IF meta.type = "select" THEN { meta.options[i] : i \in 1..Len(meta.options) }
    ELSE IF meta.type \in { "string", "expression" } THEN UserTexts
    ELSE {}

\* the widgets of the page: the fields that are not fixed
Editable(t) == { k \in Keys(fieldsFor(t)) : MetaOf(fieldsFor(t), k).type # "fixed" }

\* The state the toolkit keeps for the widgets after the user left v in the
\* widget of k: a widget that holds its initial value again is as untouched.
\* The initial value of "id" is a fresh identifier in every run.
Leave(ct, ty, k, v) ==
    LET meta == MetaOf(fieldsFor(ct), k)
    IN  IF meta.default_kind # "callable"
           /\ v = WidgetValue(k, meta, Default(meta, EmptyText), NoOutput)
        THEN Without(ty, k)
        ELSE Put(ty, k, v)

\* lines 67, 69, 77: the user changes the content of one widget
EditField(k, v) ==
    /\ Cardinality(DOMAIN Leave(check_type, typed, k, v)) <= MaxTouched
    /\ \E ty \in WidgetStates(Leave(check_type, typed, k, v)) :
           \E g \in Generated(ty) : ScriptRun(check_type, ty, g)

EditSomeField ==
    \E k \in Editable(check_type) :
        \E v \in Choices(MetaOf(fieldsFor(check_type), k)) : EditField(k, v)

\* the page is run again with nothing changed by the user
Rerun ==
    \E ty \in WidgetStates(typed) :
        \E g \in Generated(ty) : ScriptRun(check_type, ty, g)

\* lines 96, 126-143: a click on "Apply This Assertion"
ClickApply ==
    /\ status = "ok"
    /\ LET r == applyTest(json_dumps(output, KeySeq(fieldsFor(check_type))))
       IN  /\ posted' = r.posted
           /\ toast' = r.toast
           /\ console' = r.console
    /\ UNCHANGED << check_type, typed, output, notices, parsed, status >>
    /\ UNCHANGED harnessVars

Next ==
    \/ \E t \in CheckTypes : SelectCheckType(t)
    \/ EditSomeField
    \/ Rerun
    \/ ClickApply

Spec == Init /\ [][Next]_vars

-----------------------------------------------------------------------------
(* The merge of line 47 and the loop of lines 50-80 as functions of the    *)
(* schema: the field sets are drawn from the registry and from a bounded   *)
(* family of other type-specific field sets, among them sets that reuse a  *)
(* core name and sets with a descriptor of a kind the loop does not know.  *)

HypOptions == << << "first" >>, << "second" >> >>

MetaCatalogue ==
    << BaseMeta("string"),
       BaseMeta("number"),
       [ BaseMeta("select") EXCEPT !.options = HypOptions,
                                   !.default_kind = "const",
                                   !.default = << "second" >> ],
       [ BaseMeta("select") EXCEPT !.options = HypOptions,
                                   !.default_kind = "const",
                                   !.default = << "third" >> ],
       [ BaseMeta("fixed") EXCEPT !.value = << "literal" >> ],
       BaseMeta("expression"),
       [ BaseMeta("string") EXCEPT !.optional = TRUE ],
       [ BaseMeta("fixed") EXCEPT !.value_from_parent = TRUE ],
       [ BaseMeta("string") EXCEPT !.default_kind = "const",
                                   !.default = << "preset" >> ] >>

HypKeys == { "name", "extra" }

HypFields == { Field(k, m) : k \in HypKeys, m \in Prefix(MetaCatalogue, NumMetas) }

HypFieldSets ==
    { fs \in UNION { [ 1..n -> HypFields ] : n \in 0..MaxSchemaLen } :
        \A i, j \in 1..Len(fs) : i # j => fs[i].key # fs[j].key }

AppIdle ==
    /\ check_type = CheckTypeList[1]
    /\ typed = NoOutput
    /\ output = NoOutput
    /\ notices = NoOutput
    /\ parsed = {}
    /\ status = "ok"
    /\ posted = NoMessage
    /\ toast = FALSE
    /\ console = FALSE

SchemaInit ==
    /\ AppIdle
    /\ sType \in CheckTypes
    /\ sCore = core_fields
    /\ sSpecific \in { schemas(sType) } \cup HypFieldSets
    /\ sTyped = NoOutput
    /\ sFields = << >>
    /\ sResult = IdleResult
    /\ sTyped2 = NoOutput
    /\ sAgain = IdleResult
    /\ sPc = "start"

\* line 47
SMerge ==
    /\ sPc = "start"
    /\ sFields' = Merge(sCore, sSpecific)
    /\ sPc' = "merged"
    /\ UNCHANGED << sType, sCore, sSpecific, sTyped, sResult, sTyped2, sAgain >>
    /\ UNCHANGED appVars

\* what the user left in the widgets: nothing, or one text or option
HarnessTyped(fs) ==
    { NoOutput } \cup
    UNION { { Put(NoOutput, fs[i].key, v) : v \in Choices(fs[i].meta) } :
              i \in 1..Len(fs) }

\* lines 50-80
SRender ==
    /\ sPc = "merged"
    /\ \E ty \in HarnessTyped(sFields), g \in GenIds :
           /\ sTyped' = ty
           /\ sResult' = RenderLoop(sFields, sType, ty, g, NoOutput)
    /\ sPc' = "rendered"
    /\ UNCHANGED << sType, sCore, sSpecific, sFields, sTyped2, sAgain >>
    /\ UNCHANGED appVars

\* lines 50-80 in the next run of the script, with the widgets as they were
\* or emptied by the user; the document of the run before is what line 50
\* finds in the variable
SRenderAgain ==
    /\ sPc = "rendered"
    /\ \E ty \in { sTyped, NoOutput }, g \in GenIds :
           /\ sTyped2' = ty
           /\ sAgain' = RenderLoop(sFields, sType, ty, g, sResult.output)
    /\ sPc' = "again"
    /\ UNCHANGED << sType, sCore, sSpecific, sFields, sTyped, sResult >>
    /\ UNCHANGED appVars

SchemaNext == SMerge \/ SRender \/ SRenderAgain

SpecSchema == SchemaInit /\ [][SchemaNext]_vars

-----------------------------------------------------------------------------
(* Properties of the application (specification Spec).                     *)

\* C1: for every non-fixed field of the selected check type and whatever the
\* user left in its widget, the key is in the Output Document exactly when
\* the value is non-empty, or the descriptor is optional and the value is
\* the empty string; a present key carries the widget's value unchanged.
\* An untouched "id" holds the identifier generated by that run.
C1_InclusionRule ==
    \A k \in Editable(check_type) :
        LET meta == MetaOf(fieldsFor(check_type), k)
            value == WidgetValue(k, meta, Default(meta, EmptyText), typed)
        IN  IF k \notin DOMAIN typed /\ meta.default_kind = "callable"
            THEN k \in DOMAIN output /\ output[k] \in GenIds
            ELSE /\ k \in DOMAIN output <=>
                      (value # EmptyText \/ (meta.optional /\ value = EmptyText))
                 /\ k \in DOMAIN output => output[k] = value

\* C1 witness: an optional field left empty is present with "", the required
\* field name left empty is absent, and a typed blank is present unchanged.
C1_Witness ==
    /\ check_type = "tabular_mdo_eval"
    /\ "comment_character" \in DOMAIN output
    /\ output["comment_character"] = EmptyText
    /\ "name" \notin DOMAIN output
    /\ "stat" \in DOMAIN typed /\ typed["stat"] = << " " >>
    /\ "stat" \in DOMAIN output /\ output["stat"] = << " " >>

\* C2: once the apply button was clicked, the message posted to the top-level
\* window has type "miqa-test-apply-direct" and a payload that deep-equals
\* the Output Document displayed, for every text a field can hold.
C2_PayloadEqualsOutput ==
    (toast \/ console) =>
        /\ posted.type = "miqa-test-apply-direct"
        /\ posted.payload = DocPairs(output)

\* C4: every fixed field is present with the configured literal, or with the
\* selected check-type name when flagged value-from-parent, whatever the
\* user typed: check_type is the selected type, and item_typ1e is
\* "outputfile" exactly when postproc_results is selected.
C4_FixedFields ==
    /\ "check_type" \in DOMAIN output
    /\ output["check_type"] = << check_type >>
    /\ "item_typ1e" \in DOMAIN output <=> check_type = "postproc_results"
    /\ "item_typ1e" \in DOMAIN output => output["item_typ1e"] = << "outputfile" >>
    /\ \A k \in Keys(fieldsFor(check_type)) \ Editable(check_type) :
           k \in DOMAIN output /\ k \notin DOMAIN typed

\* C4 witness: the other check type is selected and the user typed something
C4_Witness ==
    /\ check_type = "tabular_mdo_eval"
    /\ "name" \in DOMAIN typed
    /\ "stat" \in DOMAIN typed
    /\ output["check_type"] = << "tabular_mdo_eval" >>
    /\ "item_typ1e" \notin DOMAIN output

C5_Input ==
    /\ check_type = "postproc_results"
    /\ DOMAIN typed = { "name", "processor_key" }
    /\ typed["name"] = << "t1" >>
    /\ typed["processor_key"] = << "flagstat" >>

\* C5: with postproc_results selected, name "t1", processor_key "flagstat"
\* and everything else untouched, the Output Document has exactly the keys
\* name, id, failtype, check_type, processor_key, item_typ1e, with "t1", a
\* generated identifier, "fail", "postproc_results", "flagstat", "outputfile".
C5_Example ==
    C5_Input =>
        /\ DOMAIN output = { "name", "id", "failtype", "check_type",
                             "processor_key", "item_typ1e" }
        /\ output["name"] = << "t1" >>
        /\ output["id"] \in GenIds
        /\ output["failtype"] = << "fail" >>
        /\ output["check_type"] = << "postproc_results" >>
        /\ output["processor_key"] = << "flagstat" >>
        /\ output["item_typ1e"] = << "outputfile" >>

\* C5 witness: the inputs of the example are on the page
C5_Witness == C5_Input /\ status = "ok" /\ "id" \in DOMAIN output

\* the expression fields of the page whose text does not parse
C8_Unparsable ==
    { k \in Editable(check_type) :
        /\ MetaOf(fieldsFor(check_type), k).type = "expression"
        /\ k \in DOMAIN typed
        /\ \E i \in 1..Len(typed[k]) : typed[k][i] # " "
        /\ ast_parse(typed[k]) # "ok" }

\* C8: when the text of an expression field fails to parse, the run still
\* ends normally with the Output Document and the apply button, the error is
\* shown at that field, the text is in the document under the field's key,
\* and every other key is present with the value it has when the field
\* holds an expression that parses.
C8_SyntaxErrorIsLocal ==
    \A k \in C8_Unparsable :
        /\ status = "ok"
        /\ k \in DOMAIN notices /\ notices[k] = "error"
        /\ k \in DOMAIN output /\ output[k] = typed[k]
        /\ LET g == IF "id" \in DOMAIN output THEN output["id"] ELSE EmptyText
               good == RenderLoop(fieldsFor(check_type), check_type,
                                  Put(typed, k, << "t1" >>), g, NoOutput)
           IN  /\ good.notices[k] = "success"
               /\ Without(output, k) = Without(good.output, k)

\* C8 witness: the expression of a postproc_results check does not parse, and
\* the fields after it are in the document
C8_Witness ==
    /\ check_type = "postproc_results"
    /\ C8_Unparsable = { "stat" }
    /\ notices["stat"] = "error"
    /\ "name" \in DOMAIN typed
    /\ "item_typ1e" \in DOMAIN output
    /\ status = "ok"

\* C9 as stated: a non-empty expression text is parsed and gets exactly one
\* notice, an empty one is not parsed and gets none; hence every expression
\* value in the Output Document was syntax-checked in that run.
C9_Original ==
    \A k \in Editable(check_type) :
        LET meta == MetaOf(fieldsFor(check_type), k)
            value == WidgetValue(k, meta, Default(meta, EmptyText), typed)
        IN  meta.type = "expression" =>
                /\ value # EmptyText => k \in parsed /\ k \in DOMAIN notices
                /\ value = EmptyText => k \notin parsed /\ k \notin DOMAIN notices
                /\ k \in DOMAIN output => k \in parsed

\* C9 amended: an expression text with a character other than white space
\* is parsed and gets exactly one notice, the error on a parse failure and
\* the validity note on success; an empty or all-blank text is not parsed
\* and gets no notice.  Hence every expression value in the Output Document
\* that is not all blank was syntax-checked in that run.
C9_Amended ==
    \A k \in Editable(check_type) :
        LET meta == MetaOf(fieldsFor(check_type), k)
            value == WidgetValue(k, meta, Default(meta, EmptyText), typed)
            blank == \A i \in 1..Len(value) : value[i] \in { " ", "\n" }
        IN  meta.type = "expression" =>
                /\ ~blank => /\ k \in parsed
                             /\ k \in DOMAIN notices
                             /\ notices[k] = "error" <=> ast_parse(value) # "ok"
                             /\ notices[k] = "success" <=> ast_parse(value) = "ok"
                /\ blank => k \notin parsed /\ k \notin DOMAIN notices
                /\ (k \in DOMAIN output /\ ~blank) => k \in parsed

\* C9 witness: a blank expression is in the document and was not parsed
C9_Witness ==
    /\ "stat" \in DOMAIN typed /\ typed["stat"] = << " " >>
    /\ "stat" \in DOMAIN output
    /\ "stat" \notin parsed
    /\ "stat" \notin DOMAIN notices

-----------------------------------------------------------------------------
(* Properties of the merge and of the render loop as functions of the      *)
(* schema (specification SpecSchema).                                      *)

\* C3: the field mapping used for rendering holds exactly the core names and
\* the type-specific names; a name in both carries the type-specific
\* descriptor; the core names come first, in their order, followed by the
\* type-specific names that are not core names, in theirs.
C3_Merge ==
    sPc # "start" =>
        /\ Keys(sFields) = Keys(sCore) \cup Keys(sSpecific)
        /\ Len(sFields) = Cardinality(Keys(sFields))
        /\ \A k \in Keys(sSpecific) : MetaOf(sFields, k) = MetaOf(sSpecific, k)
        /\ \A k \in Keys(sCore) \ Keys(sSpecific) :
               MetaOf(sFields, k) = MetaOf(sCore, k)
        /\ KeySeq(sFields) =
               KeySeq(sCore)
               \o SelectSeq(KeySeq(sSpecific), LAMBDA k : k \notin Keys(sCore))

\* C3 witness: a type-specific field set redefines the core name "name"
C3_Witness ==
    /\ sPc = "merged"
    /\ "name" \in Keys(sCore) \cap Keys(sSpecific)
    /\ MetaOf(sSpecific, "name") # MetaOf(sCore, "name")
    /\ MetaOf(sFields, "name") = MetaOf(sSpecific, "name")

\* k is a field whose default is generated by each run and which the user
\* did not replace
C6_FreshIn(k) ==
    k \notin DOMAIN sTyped /\ MetaOf(sFields, k).default_kind = "callable"

KnownKinds == { "fixed", "string", "select", "expression" }

\* C7: rendering a field set with a descriptor of an unknown kind ends in an
\* error and produces no Output Document
C7_UnknownKindIsFatal ==
    (sPc = "rendered" /\ \E i \in 1..Len(sFields) : sFields[i].meta.type \notin KnownKinds)
        => (sResult.status # "ok" /\ sResult.output = NoOutput)

\* C10: a select field the user has not touched holds its default when the
\* default is one of the options and the first option otherwise (failtype
\* starts at "fail", processor_key at "fasta-summary"); in every run the
\* value of a select field is one of its options and its key is in the
\* Output Document.
C10_SelectPreselection ==
    sPc = "rendered" =>
        /\ \A i \in 1..Len(sFields) :
               LET k == sFields[i].key
                   m == sFields[i].meta
                   opts == { m.options[j] : j \in 1..Len(m.options) }
               IN  m.type = "select" =>
                       /\ k \in DOMAIN sResult.output
                       /\ sResult.output[k] \in opts
                       /\ k \notin DOMAIN sTyped =>
                              sResult.output[k] =
                                  IF m.default_kind = "const" /\ m.default \in opts
                                  THEN m.default ELSE m.options[1]
        /\ (sSpecific = postproc_results_fields /\ sTyped = NoOutput) =>
               /\ sResult.output["failtype"] = << "fail" >>
               /\ sResult.output["processor_key"] = << "fasta-summary" >>

\* C10 witness: an untouched select whose default is none of its options
\* shows its first option
C10_Witness ==
    /\ sPc = "rendered"
    /\ sTyped = NoOutput
    /\ "extra" \in Keys(sFields)
    /\ MetaOf(sFields, "extra").type = "select"
    /\ MetaOf(sFields, "extra").default = << "third" >>
    /\ sResult.output["extra"] = << "first" >>

=============================================================================
